---- MODULE Spec2Model ----
(***************************************************************************)
(* Org chart store (zustand) and tree auto-layout of firstfu/workflow_01.   *)
(*                                                                         *)
(* nodes          : the store's node list; each node has an id, a position  *)
(*                  {x, y} and the employee payload `data`                  *)
(* edges          : the store's edge list {id, source, target}              *)
(* collapsedNodes : the store's collapse set                                *)
(* selectedNode   : the store's selection: the id of the card clicked last  *)
(* selectedDepartments, searchQuery, searchResults : the store's department  *)
(*                  filter and search state                                 *)
(* timers         : the pending setTimeout callbacks: those that will call   *)
(*                  the store's autoLayout() and those that will run the    *)
(*                  layout pass                                             *)
(* chat           : the chat assistant: its message list, isLoading and the *)
(*                  requests that have not settled                          *)
(* jobDescription : the job description generator: isGenerating, error,     *)
(*                  result and the requests that have not settled           *)
(* last, pre, steps : history of the run: the last operation with its       *)
(*                  arguments and outcome, the store before it, and the     *)
(*                  number of mutations the run may still apply             *)
(*                                                                         *)
(* Chinese string literals of the source are written in ASCII.             *)
(***************************************************************************)
EXTENDS Integers, Sequences, FiniteSets, TLC

VARIABLES nodes, edges, collapsedNodes, selectedNode, selectedDepartments,
          searchQuery, searchResults, timers, chat, jobDescription, last, pre,
          steps

vars == <<nodes, edges, collapsedNodes, selectedNode, selectedDepartments,
          searchQuery, searchResults, timers, chat, jobDescription, last, pre,
          steps>>

searchVars == <<selectedDepartments, searchQuery, searchResults>>

\* what lives outside the store: timers and the two assistant components
uiVars == <<timers, chat, jobDescription>>

(***************************************************************************)
(* Bounds of the model.                                                    *)
(***************************************************************************)
\* mutations applied to the store in one behaviour
MaxSteps == 1
\* ids not in the initial data set that addEmployee may be given
MaxFresh == 1
\* nodes of a forest handed to the layout pass in SpecLayout
MaxLayoutNodes == 6
\* store operations applied in one behaviour of SpecCalls
MaxCalls == 2
\* nodes of a forest whose nodes are collapsed and expanded in SpecCollapse
MaxCollapseNodes == 3

(***************************************************************************)
(* Layout configuration.                                                   *)
(***************************************************************************)
horizontalSpacing == 650
verticalSpacing == 280
startY == 100
canvasCenterX == 1200
\* the rendered card width (min-w-[240px])
cardWidth == 240

(***************************************************************************)
(* Data.                                                                   *)
(***************************************************************************)
\* `if (parentId)`: undefined and '' are both falsy
NoParent == ""

\* selectedNode: null
NoSelection == "null"

mkEmployee(id, name, position, department, email, level) ==
    [id |-> id, name |-> name, position |-> position,
     department |-> department, email |-> email, level |-> level]

mkNode(id, x, y, data) ==
    [id |-> id, position |-> [x |-> x, y |-> y], data |-> data]

mkEdge(id, source, target) ==
    [id |-> id, source |-> source, target |-> target]

\* nodes '1', '2', '3', '7', '8' of the default data set with their edges
initialNodes ==
    << mkNode("1", 600, 50,
              mkEmployee("1", "ZhangMinghua", "CEO", "Executive", "ceo@techflow.com", 1)),
       mkNode("2", 200, 200,
              mkEmployee("2", "LiMeiling", "CTO", "Tech", "cto@techflow.com", 2)),
       mkNode("3", 400, 200,
              mkEmployee("3", "WangDawei", "CFO", "Finance", "cfo@techflow.com", 2)),
       mkNode("7", 100, 350,
              mkEmployee("7", "WuXiaoming", "FrontendLead", "Tech", "frontend.lead@techflow.com", 3)),
       mkNode("8", 250, 350,
              mkEmployee("8", "LiuZhiqiang", "BackendLead", "Tech", "backend.lead@techflow.com", 3)) >>

initialEdges ==
    << mkEdge("e1-2", "1", "2"), mkEdge("e1-3", "1", "3"),
       mkEdge("e2-7", "2", "7"), mkEdge("e2-8", "2", "8") >>

\* the largest id of the default data set; the UI numbers new employees from it
lastInitialId == 28

FreshIds == { ToString(lastInitialId + i) : i \in 1..MaxFresh }

InitialIds == { initialNodes[i].id : i \in DOMAIN initialNodes }

\* ids the operations are called with: present ones and absent ones
AllIds == InitialIds \cup FreshIds

\* Math.random() * 500, to the integer
RandomX == {250}

\* the level of an employee handed to addEmployee
AddLevels == {2}

(***************************************************************************)
(* Sequence helpers (Array.prototype.filter / map / includes / some).      *)
(***************************************************************************)
Range(s) == { s[i] : i \in DOMAIN s }

NodeIdsOf(ns) == { ns[i].id : i \in DOMAIN ns }

RECURSIVE Flatten(_)
Flatten(ss) == IF ss = <<>> THEN <<>> ELSE Head(ss) \o Flatten(Tail(ss))

\* edges.filter(edge => edge.source === nodeId).map(edge => edge.target)
ChildrenOf(es, nodeId) ==
    LET out == SelectSeq(es, LAMBDA e : e.source = nodeId)
    IN  [i \in DOMAIN out |-> out[i].target]

RECURSIVE ReachFrom(_, _)
\* the ids reachable from the set S along edges (S included)
ReachFrom(es, S) ==
    LET next == S \cup { e.target : e \in { f \in Range(es) : f.source \in S } }
    IN  IF next = S THEN S ELSE ReachFrom(es, next)

\* ids reachable from nodeId in one or more steps
ProperDescendants(es, nodeId) == ReachFrom(es, Range(ChildrenOf(es, nodeId)))

\* a recursion over children started at nodeId never returns: it meets a cycle
\* (JavaScript ends it with RangeError: Maximum call stack size exceeded)
Diverges(es, nodeId) ==
    \E n \in ReachFrom(es, {nodeId}) : n \in ProperDescendants(es, n)

(***************************************************************************)
(* The layout pass (handleAutoLayout).                                     *)
(***************************************************************************)
EmptyMap == [k \in {} |-> 0]

\* parentMap.has(id): some edge targets id
HasParent(es, id) == \E e \in Range(es) : e.target = id

\* currentNodes.filter(node => !parentMap.has(node.id))
rootNodes(ns, es) == SelectSeq(ns, LAMBDA n : ~HasParent(es, n.id))

RECURSIVE calculateWidth(_, _)
\* buildTree followed by calculateWidth: a leaf is one unit wide, any other
\* node as wide as its children together
calculateWidth(es, nodeId) ==
    LET children == ChildrenOf(es, nodeId)
        widths == [i \in DOMAIN children |-> calculateWidth(es, children[i])]
        Sum[i \in 0..Len(widths)] == IF i = 0 THEN 0 ELSE Sum[i - 1] + widths[i]
    IN  IF children = <<>> THEN 1 ELSE Sum[Len(widths)]

RECURSIVE setPositions(_, _, _, _, _, _)
RECURSIVE placeChildren(_, _, _, _, _, _)
\* setPositions that puts a node over the first slot of its span
setPositionsLeftAligned(ns, es, nodeId, left, top, nodePositions) ==
    IF nodeId \notin NodeIdsOf(ns)
    THEN nodePositions
    ELSE LET nodeX == left + horizontalSpacing \div 2
             placed == (nodeId :> [x |-> nodeX, y |-> top]) @@ nodePositions
         IN  placeChildren(ns, es, ChildrenOf(es, nodeId), left,
                           top + verticalSpacing, placed)

\* setPositions that takes the row from the payload's level (the level-based
\* layout of the earlier revision)
setPositionsByLevel(ns, es, nodeId, left, top, nodePositions) ==
    IF nodeId \notin NodeIdsOf(ns)
    THEN nodePositions
    ELSE LET nodeX == left + (calculateWidth(es, nodeId) * horizontalSpacing) \div 2
             level == (CHOOSE n \in Range(ns) : n.id = nodeId).data.level
             placed == (nodeId :> [x |-> nodeX, y |-> (level - 1) * verticalSpacing + startY])
                       @@ nodePositions
         IN  placeChildren(ns, es, ChildrenOf(es, nodeId), left,
                           top + verticalSpacing, placed)

\* nodePositions after setPositions(treeNode, left, top)
setPositions(ns, es, nodeId, left, top, nodePositions) ==
    IF nodeId \notin NodeIdsOf(ns)
    THEN nodePositions
    ELSE LET nodeX == left + (calculateWidth(es, nodeId) * horizontalSpacing) \div 2
             placed == (nodeId :> [x |-> nodeX, y |-> top]) @@ nodePositions
         IN  placeChildren(ns, es, ChildrenOf(es, nodeId), left,
                           top + verticalSpacing, placed)

\* placeChildren that advances by one slot whatever the child's width
placeChildrenOneSlotEach(ns, es, children, childLeft, top, nodePositions) ==
    IF children = <<>>
    THEN nodePositions
    ELSE placeChildren(ns, es, Tail(children),
                       childLeft + horizontalSpacing,
                       top,
                       setPositions(ns, es, Head(children), childLeft, top, nodePositions))

\* the forEach over treeNode.children with its running childLeft
placeChildren(ns, es, children, childLeft, top, nodePositions) ==
    IF children = <<>>
    THEN nodePositions
    ELSE placeChildren(ns, es, Tail(children),
                       childLeft + calculateWidth(es, Head(children)) * horizontalSpacing,
                       top,
                       setPositions(ns, es, Head(children), childLeft, top, nodePositions))

RECURSIVE placeOtherRoots(_, _, _, _, _)
\* placeOtherRoots without the gap between consecutive roots
placeOtherRootsNoGap(ns, es, roots, offsetX, nodePositions) ==
    IF roots = <<>>
    THEN nodePositions
    ELSE placeOtherRoots(ns, es, Tail(roots),
                         offsetX + calculateWidth(es, Head(roots).id) * horizontalSpacing,
                         setPositions(ns, es, Head(roots).id, offsetX, startY, nodePositions))

\* the loop over rootNodes[1..] with its running offsetX
placeOtherRoots(ns, es, roots, offsetX, nodePositions) ==
    IF roots = <<>>
    THEN nodePositions
    ELSE placeOtherRoots(ns, es, Tail(roots),
                         offsetX + calculateWidth(es, Head(roots).id) * horizontalSpacing
                                 + horizontalSpacing,
                         setPositions(ns, es, Head(roots).id, offsetX, startY, nodePositions))

\* the first root's left edge: startX = 1200 - totalWidth / 2
startX(es, mainRoot) ==
    canvasCenterX - (calculateWidth(es, mainRoot.id) * horizontalSpacing) \div 2

\* nodePositions when the pass reaches `layoutedNodes`
computePositions(ns, es) ==
    LET roots == rootNodes(ns, es)
        mainRoot == roots[1]
        totalWidth == calculateWidth(es, mainRoot.id) * horizontalSpacing
        first == setPositions(ns, es, mainRoot.id, startX(es, mainRoot), startY, EmptyMap)
    IN  placeOtherRoots(ns, es, Tail(roots),
                        startX(es, mainRoot) + totalWidth + horizontalSpacing, first)

\* layoutedNodes that moves each node by the computed offset instead of to it
layoutedNodesAccumulating(ns, nodePositions) ==
    [i \in DOMAIN ns |->
        IF ns[i].id \in DOMAIN nodePositions
        THEN [ns[i] EXCEPT !.position =
                 [x |-> ns[i].position.x + nodePositions[ns[i].id].x,
                  y |-> ns[i].position.y + nodePositions[ns[i].id].y]]
        ELSE ns[i]]

\* currentNodes.map(node => position ? {...node, position} : node)
layoutedNodes(ns, nodePositions) ==
    [i \in DOMAIN ns |->
        IF ns[i].id \in DOMAIN nodePositions
        THEN [ns[i] EXCEPT !.position = nodePositions[ns[i].id]]
        ELSE ns[i]]

\* layoutOutcome that stacks the nodes at the origin when there is no root
layoutOutcomeStackingWithoutRoot(ns, es) ==
    LET roots == rootNodes(ns, es)
    IN  IF roots = <<>>
        THEN [result |-> "noRoot",
              nodes |-> [i \in DOMAIN ns |->
                            [ns[i] EXCEPT !.position = [x |-> 0, y |-> 0]]],
              assigned |-> {}]
        ELSE IF \E i \in DOMAIN roots : Diverges(es, roots[i].id)
        THEN [result |-> "RangeError", nodes |-> ns, assigned |-> {}]
        ELSE LET nodePositions == computePositions(ns, es)
             IN  [result |-> "ok",
                  nodes |-> layoutedNodes(ns, nodePositions),
                  assigned |-> DOMAIN nodePositions]

\* outcome of one pass over the store (ns, es): no root, a recursion that never
\* returns, or the new node list
layoutOutcome(ns, es) ==
    LET roots == rootNodes(ns, es)
    IN  IF roots = <<>>
        THEN [result |-> "noRoot", nodes |-> ns, assigned |-> {}]
        ELSE IF \E i \in DOMAIN roots : Diverges(es, roots[i].id)
        THEN [result |-> "RangeError", nodes |-> ns, assigned |-> {}]
        ELSE LET nodePositions == computePositions(ns, es)
             IN  [result |-> "ok",
                  nodes |-> layoutedNodes(ns, nodePositions),
                  assigned |-> DOMAIN nodePositions]

(***************************************************************************)
(* The store: initial state and operations.                                *)
(***************************************************************************)
\* no timer is pending
NoTimers == [autoLayout |-> 0, layout |-> 0]

\* the chat assistant as mounted: no message, not loading, nothing in flight
NoChat == [messages |-> <<>>, isLoading |-> FALSE, inFlight |-> <<>>]

\* the job description generator as mounted
NoJobDescription ==
    [isGenerating |-> FALSE, error |-> "", result |-> "", inFlight |-> <<>>]

\* setTimeout forgets the callback
scheduleForgotten(pending) == pending

\* one more callback handed to setTimeout
schedule(pending) == pending + 1

Snapshot ==
    [nodes |-> nodes, edges |-> edges, collapsedNodes |-> collapsedNodes,
     selectedNode |-> selectedNode,
     selectedDepartments |-> selectedDepartments, searchQuery |-> searchQuery,
     searchResults |-> searchResults, timers |-> timers, chat |-> chat,
     jobDescription |-> jobDescription]

Op(op, a, b, data, result, assigned) ==
    [op |-> op, a |-> a, b |-> b, data |-> data, result |-> result,
     assigned |-> assigned]

Init ==
    /\ nodes = initialNodes
    /\ edges = initialEdges
    /\ collapsedNodes = {}
    /\ selectedDepartments = {}
    /\ searchQuery = ""
    /\ searchResults = <<>>
    /\ selectedNode = NoSelection
    /\ timers = NoTimers
    /\ chat = NoChat
    /\ jobDescription = NoJobDescription
    /\ last = Op("init", "", "", EmptyMap, "ok", {})
    /\ pre = Snapshot
    /\ steps = MaxSteps

\* the employee of handleAddEmployee / handleAddSubordinate
newEmployee(id, level) ==
    mkEmployee(id, "NewEmployee", "Position", "Department", "email@company.com", level)

\* the node list after addEmployee(employee, parentId) with Math.random() * 500 = x
addEmployeeNodes(ns, employee, x) ==
    Append(ns, mkNode(employee.id, x, (employee.level - 1) * 150 + 50, employee))

\* the edge list after addEmployee(employee, parentId)
addEmployeeEdges(es, employee, parentId) ==
    IF parentId # NoParent
    THEN Append(es, mkEdge("e" \o parentId \o "-" \o employee.id, parentId, employee.id))
    ELSE es

addEmployee(employee, parentId, x) ==
    /\ steps > 0
    /\ nodes' = addEmployeeNodes(nodes, employee, x)
    /\ edges' = addEmployeeEdges(edges, employee, parentId)
    /\ last' = Op("addEmployee", employee.id, parentId, employee, "ok", {})
    /\ pre' = Snapshot
    /\ steps' = steps - 1
    /\ UNCHANGED <<collapsedNodes, selectedNode, searchVars, uiVars>>

\* { ...node.data, ...data }
mergeData(nodeData, data) ==
    [f \in DOMAIN nodeData \cup DOMAIN data |->
        IF f \in DOMAIN data THEN data[f] ELSE nodeData[f]]

\* the node list after updateEmployee(id, data)
updateEmployeeNodes(ns, id, data) ==
    [i \in DOMAIN ns |->
        IF ns[i].id = id
        THEN [ns[i] EXCEPT !.data = mergeData(ns[i].data, data)]
        ELSE ns[i]]

updateEmployee(id, data) ==
    /\ steps > 0
    /\ nodes' = updateEmployeeNodes(nodes, id, data)
    /\ last' = Op("updateEmployee", id, "", data, "ok", {})
    /\ pre' = Snapshot
    /\ steps' = steps - 1
    /\ UNCHANGED <<edges, collapsedNodes, selectedNode, searchVars, uiVars>>

\* findAllChildren without the recursive call: the node and its direct children
findAllChildrenDirectOnly(es, nodeId) == <<nodeId>> \o ChildrenOf(es, nodeId)

RECURSIVE findAllChildren(_, _)
\* [nodeId] followed by findAllChildren of each child, in edge order
findAllChildren(es, nodeId) ==
    LET children == ChildrenOf(es, nodeId)
    IN  <<nodeId>> \o Flatten([i \in DOMAIN children |-> findAllChildren(es, children[i])])

\* nodes.filter(node => !nodesToDelete.includes(node.id))
deleteEmployeeNodes(ns, nodesToDelete) ==
    SelectSeq(ns, LAMBDA n : n.id \notin Range(nodesToDelete))

\* edges.filter(edge => !nodesToDelete.includes(edge.source)
\*                      && !nodesToDelete.includes(edge.target))
deleteEmployeeEdges(es, nodesToDelete) ==
    SelectSeq(es, LAMBDA e : /\ e.source \notin Range(nodesToDelete)
                             /\ e.target \notin Range(nodesToDelete))

deleteEmployee(id) ==
    /\ steps > 0
    /\ IF Diverges(edges, id)
       THEN /\ last' = Op("deleteEmployee", id, "", EmptyMap, "RangeError", {})
            /\ UNCHANGED <<nodes, edges, timers>>
       ELSE /\ nodes' = deleteEmployeeNodes(nodes, findAllChildren(edges, id))
            /\ edges' = deleteEmployeeEdges(edges, findAllChildren(edges, id))
            /\ last' = Op("deleteEmployee", id, "", EmptyMap, "ok", {})
            /\ timers' = [timers EXCEPT !.layout = schedule(@)]
    /\ pre' = Snapshot
    /\ steps' = steps - 1
    /\ UNCHANGED <<collapsedNodes, selectedNode, searchVars, chat, jobDescription>>

\* the payload left on the source of replaceNodeData
vacantData(sourceId, level) ==
    mkEmployee(sourceId, "VacantPosition", "Unassigned", "Unassigned", "", level)

\* nodes.find(n => n.id === id)
findNode(ns, id) == ns[CHOOSE i \in DOMAIN ns :
                          /\ ns[i].id = id
                          /\ \A j \in DOMAIN ns : ns[j].id = id => i <= j]

\* replaceNodeData without the reset of the source: the payload is copied
replaceNodeDataNodesCopyOnly(ns, sourceId, targetId) ==
    LET sourceData == findNode(ns, sourceId).data
    IN  [i \in DOMAIN ns |->
            IF ns[i].id = targetId
            THEN [ns[i] EXCEPT !.data = mergeData(sourceData, [id |-> targetId])]
            ELSE ns[i]]

\* the node list after replaceNodeData(sourceId, targetId), both present
replaceNodeDataNodes(ns, sourceId, targetId) ==
    LET sourceData == findNode(ns, sourceId).data
    IN  [i \in DOMAIN ns |->
            IF ns[i].id = targetId
            THEN [ns[i] EXCEPT !.data = mergeData(sourceData, [id |-> targetId])]
            ELSE IF ns[i].id = sourceId
            THEN [ns[i] EXCEPT !.data = vacantData(sourceId, sourceData.level)]
            ELSE ns[i]]

replaceNodeData(sourceId, targetId) ==
    /\ steps > 0
    /\ IF sourceId \notin NodeIdsOf(nodes) \/ targetId \notin NodeIdsOf(nodes)
       THEN UNCHANGED nodes
       ELSE nodes' = replaceNodeDataNodes(nodes, sourceId, targetId)
    /\ last' = Op("replaceNodeData", sourceId, targetId, EmptyMap, "ok", {})
    /\ pre' = Snapshot
    /\ steps' = steps - 1
    /\ UNCHANGED <<edges, collapsedNodes, selectedNode, searchVars, uiVars>>

\* toggleSet without the delete branch: the id is added, never removed
toggleSetAddOnly(S, nodeId) == S \cup {nodeId}

\* the collapse set after toggleNodeCollapse(nodeId)
toggleSet(S, nodeId) == IF nodeId \in S THEN S \ {nodeId} ELSE S \cup {nodeId}

toggleNodeCollapse(nodeId) ==
    /\ steps > 0
    /\ collapsedNodes' = toggleSet(collapsedNodes, nodeId)
    /\ last' = Op("toggleNodeCollapse", nodeId, "", EmptyMap, "ok", {})
    /\ pre' = Snapshot
    /\ steps' = steps - 1
    /\ UNCHANGED <<nodes, edges, selectedNode, searchVars, uiVars>>

\* addEdge of the canvas library: the edge is appended under the id
\* xy-edge__<source>-<target> unless an edge source -> target is already there
addEdge(es, source, target) ==
    IF \E e \in Range(es) : e.source = source /\ e.target = target
    THEN es
    ELSE Append(es, mkEdge("xy-edge__" \o source \o "-" \o target, source, target))

\* a connection drawn on the canvas between two rendered nodes
onConnect(source, target) ==
    /\ steps > 0
    /\ source \in NodeIdsOf(nodes)
    /\ target \in NodeIdsOf(nodes)
    /\ edges' = addEdge(edges, source, target)
    /\ last' = Op("onConnect", source, target, EmptyMap, "ok", {})
    /\ pre' = Snapshot
    /\ steps' = steps - 1
    /\ UNCHANGED <<nodes, collapsedNodes, selectedNode, searchVars, uiVars>>

\* setSelectedNode(id), called with the id of the card that is clicked
setSelectedNode(id) ==
    /\ steps > 0
    /\ id \in NodeIdsOf(nodes)
    /\ selectedNode' = id
    /\ last' = Op("setSelectedNode", id, "", EmptyMap, "ok", {})
    /\ pre' = Snapshot
    /\ steps' = steps - 1
    /\ UNCHANGED <<nodes, edges, collapsedNodes, searchVars, uiVars>>

\* the layout callback fires: one pass over the store as it is now
handleAutoLayout ==
    /\ LET outcome == layoutOutcome(nodes, edges)
       IN  /\ nodes' = outcome.nodes
           /\ last' = Op("handleAutoLayout", "", "", EmptyMap,
                         outcome.result, outcome.assigned)
    /\ pre' = Snapshot
    /\ UNCHANGED <<edges, collapsedNodes, selectedNode, searchVars, steps, uiVars>>

\* Partial<Employee> values handed to updateEmployee
Partials ==
    { [name |-> "Renamed", position |-> "Position", department |-> "Tech",
       email |-> "renamed@techflow.com"],
      [level |-> 4],
      [id |-> "99"] }

Next ==
    \/ \E id \in AllIds, parentId \in AllIds \cup {NoParent}, level \in AddLevels, x \in RandomX :
          addEmployee(newEmployee(id, level), parentId, x)
    \/ \E id \in AllIds, data \in Partials : updateEmployee(id, data)
    \/ \E id \in AllIds : deleteEmployee(id)
    \/ \E sourceId \in AllIds, targetId \in AllIds : replaceNodeData(sourceId, targetId)
    \/ \E nodeId \in AllIds : toggleNodeCollapse(nodeId)
    \/ \E source \in AllIds, target \in AllIds : onConnect(source, target)
    \/ \E id \in AllIds : setSelectedNode(id)
    \/ handleAutoLayout

Spec == Init /\ [][Next]_vars

(***************************************************************************)
(* Sequences of MaxCalls store operations on the default data set, called   *)
(* with the ids of Spec and with an id that no node ever has.               *)
(***************************************************************************)
\* an id that is in no data set and is never handed out
UnknownIds == {"0"}

CallIds == AllIds \cup UnknownIds

InitCalls ==
    /\ nodes = initialNodes
    /\ edges = initialEdges
    /\ collapsedNodes = {}
    /\ selectedDepartments = {}
    /\ searchQuery = ""
    /\ searchResults = <<>>
    /\ selectedNode = NoSelection
    /\ timers = NoTimers
    /\ chat = NoChat
    /\ jobDescription = NoJobDescription
    /\ last = Op("init", "", "", EmptyMap, "ok", {})
    /\ pre = Snapshot
    /\ steps = MaxCalls

NextCalls ==
    \/ \E id \in AllIds, parentId \in CallIds \cup {NoParent}, level \in AddLevels, x \in RandomX :
          addEmployee(newEmployee(id, level), parentId, x)
    \/ \E id \in CallIds, data \in Partials : updateEmployee(id, data)
    \/ \E id \in CallIds : deleteEmployee(id)
    \/ \E sourceId \in CallIds, targetId \in CallIds : replaceNodeData(sourceId, targetId)
    \/ \E nodeId \in CallIds : toggleNodeCollapse(nodeId)
    \/ \E source \in CallIds, target \in CallIds : onConnect(source, target)

SpecCalls == InitCalls /\ [][NextCalls]_vars

(***************************************************************************)
(* swapData, the second of the two drop operations.  The drop dialog that   *)
(* implements it is not among the sources; the operation is written from    *)
(* its description: both payloads are exchanged in full, each node keeps    *)
(* its own id field and its own level, and nothing happens when either id   *)
(* is missing.                                                              *)
(***************************************************************************)
\* swapData with the level travelling with the payload
swapDataNodesWithLevel(ns, idA, idB) ==
    IF idA \notin NodeIdsOf(ns) \/ idB \notin NodeIdsOf(ns) THEN ns
    ELSE LET dataA == findNode(ns, idA).data
             dataB == findNode(ns, idB).data
         IN  [i \in DOMAIN ns |->
                 IF ns[i].id = idA
                 THEN [ns[i] EXCEPT !.data = mergeData(dataB, [id |-> idA])]
                 ELSE IF ns[i].id = idB
                 THEN [ns[i] EXCEPT !.data = mergeData(dataA, [id |-> idB])]
                 ELSE ns[i]]

\* the node list after swapData(idA, idB)
swapDataNodes(ns, idA, idB) ==
    IF idA \notin NodeIdsOf(ns) \/ idB \notin NodeIdsOf(ns) THEN ns
    ELSE LET dataA == findNode(ns, idA).data
             dataB == findNode(ns, idB).data
         IN  [i \in DOMAIN ns |->
                 IF ns[i].id = idA
                 THEN [ns[i] EXCEPT !.data =
                          mergeData(dataB, [id |-> idA, level |-> ns[i].data.level])]
                 ELSE IF ns[i].id = idB
                 THEN [ns[i] EXCEPT !.data =
                          mergeData(dataA, [id |-> idB, level |-> ns[i].data.level])]
                 ELSE ns[i]]

swapData(idA, idB) ==
    /\ steps > 0
    /\ nodes' = swapDataNodes(nodes, idA, idB)
    /\ last' = Op("swapData", idA, idB, EmptyMap, "ok", {})
    /\ pre' = Snapshot
    /\ steps' = steps - 1
    /\ UNCHANGED <<edges, collapsedNodes, selectedNode, searchVars, uiVars>>

NextSwap == \E idA \in AllIds, idB \in AllIds : swapData(idA, idB)

\* MaxCalls drops on the default data set
SpecSwap == InitCalls /\ [][NextSwap]_vars

(***************************************************************************)
(* Import of a JSON file (handleImport).                                   *)
(***************************************************************************)
\* the value of a property the parsed object does not have
Undefined == "undefined"

\* data[f] of the parsed object
property(data, f) == IF f \in DOMAIN data THEN data[f] ELSE Undefined

\* node lists found in import files
ImportedNodeLists ==
    { << mkNode("41", 0, 0, newEmployee("41", 1)),
         mkNode("42", 0, 150, newEmployee("42", 2)) >>,
      << mkNode("41", 0, 0, newEmployee("41", 1)) >> }

\* edge lists found in import files; no file has a node '9'
ImportedEdgeLists ==
    { <<>>,
      << mkEdge("e41-42", "41", "42") >>,
      << mkEdge("e9-41", "9", "41") >> }

\* the files handed to the import: text that is not JSON, the JSON text
\* null, and objects with or without a nodes and an edges array
ImportFiles ==
    { [text |-> "notJson"], [text |-> "null"], [text |-> "object"] }
    \cup { [text |-> "object", nodes |-> ns] : ns \in ImportedNodeLists }
    \cup { [text |-> "object", edges |-> es] : es \in ImportedEdgeLists }
    \cup { [text |-> "object", nodes |-> ns, edges |-> es] :
             ns \in ImportedNodeLists, es \in ImportedEdgeLists }

\* reader.onload: JSON.parse throws on text that is not JSON and data.nodes
\* throws on null, both end in the alert; otherwise setNodes(data.nodes) and
\* setEdges(data.edges) run one after the other
handleImport(file) ==
    /\ steps > 0
    /\ IF file.text \in {"notJson", "null"}
       THEN /\ UNCHANGED <<nodes, edges>>
            /\ last' = Op("handleImport", "", "", file, "alert", {})
       ELSE /\ nodes' = property(file, "nodes")
            /\ edges' = property(file, "edges")
            /\ last' = Op("handleImport", "", "", file, "ok", {})
    /\ pre' = Snapshot
    /\ steps' = steps - 1
    /\ UNCHANGED <<collapsedNodes, selectedNode, searchVars, uiVars>>

NextImport == \E file \in ImportFiles : handleImport(file)

\* MaxCalls imports, the first into the default data set
SpecImport == InitCalls /\ [][NextImport]_vars

(***************************************************************************)
(* Derived sets of the store.                                              *)
(***************************************************************************)
\* getDescendants without the recursive call: the direct children only
getDescendantsDirectOnly(es, nodeId) == Range(ChildrenOf(es, nodeId))

\* the set getDescendants(nodeId) returns: every id below nodeId
getDescendants(es, nodeId) == ProperDescendants(es, nodeId)

\* the descendants of all collapsed nodes
hiddenNodes(es, collapsed) == UNION { getDescendants(es, c) : c \in collapsed }

\* nodes.filter(node => !hiddenNodes.has(node.id))
getVisibleNodes(ns, es, collapsed) ==
    SelectSeq(ns, LAMBDA n : n.id \notin hiddenNodes(es, collapsed))

\* edges.filter(edge => visibleNodeIds.has(edge.source) && visibleNodeIds.has(edge.target))
getVisibleEdges(ns, es, collapsed) ==
    LET visibleNodeIds == NodeIdsOf(getVisibleNodes(ns, es, collapsed))
    IN  SelectSeq(es, LAMBDA e : e.source \in visibleNodeIds /\ e.target \in visibleNodeIds)

(***************************************************************************)
(* Strings (String.prototype.toLowerCase / trim / includes).               *)
(***************************************************************************)
UpperCase == <<"A", "B", "C", "D", "E", "F", "G", "H", "I", "J", "K", "L", "M",
               "N", "O", "P", "Q", "R", "S", "T", "U", "V", "W", "X", "Y", "Z">>

LowerCase == <<"a", "b", "c", "d", "e", "f", "g", "h", "i", "j", "k", "l", "m",
               "n", "o", "p", "q", "r", "s", "t", "u", "v", "w", "x", "y", "z">>

\* the lower-case form of the one-character string c
lowerChar(c) ==
    IF \E k \in DOMAIN UpperCase : UpperCase[k] = c
    THEN LowerCase[CHOOSE k \in DOMAIN UpperCase : UpperCase[k] = c]
    ELSE c

RECURSIVE toLowerCase(_)
toLowerCase(str) ==
    IF Len(str) = 0 THEN ""
    ELSE lowerChar(SubSeq(str, 1, 1)) \o toLowerCase(SubSeq(str, 2, Len(str)))

RECURSIVE trimStart(_)
trimStart(str) ==
    IF Len(str) > 0 /\ SubSeq(str, 1, 1) = " "
    THEN trimStart(SubSeq(str, 2, Len(str)))
    ELSE str

RECURSIVE trimEnd(_)
trimEnd(str) ==
    IF Len(str) > 0 /\ SubSeq(str, Len(str), Len(str)) = " "
    THEN trimEnd(SubSeq(str, 1, Len(str) - 1))
    ELSE str

trim(str) == trimEnd(trimStart(str))

\* str.includes(sub)
includes(str, sub) ==
    \E k \in 0..(Len(str) - Len(sub)) : SubSeq(str, k + 1, k + Len(sub)) = sub

(***************************************************************************)
(* Department filter and search.                                           *)
(***************************************************************************)
\* the selection after toggleDepartmentFilter(departmentName)
newSelectedDepartments(selected, departmentName) ==
    IF departmentName \in selected
    THEN selected \ {departmentName}
    ELSE selected \cup {departmentName}

toggleDepartmentFilter(departmentName) ==
    /\ steps > 0
    /\ selectedDepartments' = newSelectedDepartments(selectedDepartments, departmentName)
    /\ last' = Op("toggleDepartmentFilter", departmentName, "", EmptyMap, "ok", {})
    /\ pre' = Snapshot
    /\ steps' = steps - 1
    /\ UNCHANGED <<nodes, edges, collapsedNodes, searchQuery, searchResults, selectedNode,
                   uiVars>>

clearDepartmentFilter ==
    /\ steps > 0
    /\ selectedDepartments' = {}
    /\ last' = Op("clearDepartmentFilter", "", "", EmptyMap, "ok", {})
    /\ pre' = Snapshot
    /\ steps' = steps - 1
    /\ UNCHANGED <<nodes, edges, collapsedNodes, searchQuery, searchResults, selectedNode,
                   uiVars>>

\* getFilteredNodes with search's convention: nothing selected, nothing returned
getFilteredNodesNoneWhenEmpty(ns, selected) ==
    SelectSeq(ns, LAMBDA n : n.data.department \in selected)

getFilteredNodes(ns, selected) ==
    IF Cardinality(selected) = 0
    THEN ns
    ELSE SelectSeq(ns, LAMBDA n : n.data.department \in selected)

\* the filter callback of searchEmployees
matchesQuery(employee, lowerQuery) ==
    \/ includes(toLowerCase(employee.name), lowerQuery)
    \/ includes(toLowerCase(employee.position), lowerQuery)
    \/ includes(toLowerCase(employee.department), lowerQuery)
    \/ includes(toLowerCase(employee.email), lowerQuery)

\* searchEmployees matching the query as typed, without the trim
matchedIdsUntrimmed(ns, query) ==
    LET lowerQuery == toLowerCase(query)
        matched == SelectSeq(ns, LAMBDA n : matchesQuery(n.data, lowerQuery))
    IN  IF trim(lowerQuery) = "" THEN <<>>
        ELSE [i \in DOMAIN matched |-> matched[i].id]

\* the ids searchEmployees(query) returns
matchedIds(ns, query) ==
    LET lowerQuery == trim(toLowerCase(query))
        matched == SelectSeq(ns, LAMBDA n : matchesQuery(n.data, lowerQuery))
    IN  IF lowerQuery = "" THEN <<>>
        ELSE [i \in DOMAIN matched |-> matched[i].id]

searchEmployees(query) ==
    /\ steps > 0
    /\ searchResults' = matchedIds(nodes, query)
    /\ last' = Op("searchEmployees", query, "",
                  [returned |-> matchedIds(nodes, query)], "ok", {})
    /\ pre' = Snapshot
    /\ steps' = steps - 1
    /\ UNCHANGED <<nodes, edges, collapsedNodes, selectedDepartments, searchQuery, selectedNode,
                   uiVars>>

setSearchQuery(query) ==
    /\ steps > 0
    /\ searchQuery' = query
    /\ searchResults' = IF trim(query) # "" THEN matchedIds(nodes, query) ELSE <<>>
    /\ last' = Op("setSearchQuery", query, "", EmptyMap, "ok", {})
    /\ pre' = Snapshot
    /\ steps' = steps - 1
    /\ UNCHANGED <<nodes, edges, collapsedNodes, selectedDepartments, selectedNode,
                   uiVars>>

clearSearch ==
    /\ steps > 0
    /\ searchQuery' = ""
    /\ searchResults' = <<>>
    /\ last' = Op("clearSearch", "", "", EmptyMap, "ok", {})
    /\ pre' = Snapshot
    /\ steps' = steps - 1
    /\ UNCHANGED <<nodes, edges, collapsedNodes, selectedDepartments, selectedNode,
                   uiVars>>

\* the nodes getSearchFilteredNodes() returns
getSearchFilteredNodes(ns, es, collapsed, query, results) ==
    LET visibleNodes == getVisibleNodes(ns, es, collapsed)
    IN  IF trim(query) = ""
        THEN visibleNodes
        ELSE SelectSeq(visibleNodes, LAMBDA n : n.id \in Range(results))

\* queries typed into the search box
SearchQueries == {"", "  ", "CTO", "finance", " Lead ", "li", "zzz"}

\* department names of the filter panel; no node of the data set is in Sales
DepartmentNames == {"Tech", "Finance", "Sales"}

(***************************************************************************)
(* Sequences of MaxCalls search, filter and collapse operations on the      *)
(* default data set.                                                        *)
(***************************************************************************)
NextSearch ==
    \/ \E query \in SearchQueries : setSearchQuery(query)
    \/ \E query \in SearchQueries : searchEmployees(query)
    \/ clearSearch
    \/ \E departmentName \in DepartmentNames : toggleDepartmentFilter(departmentName)
    \/ clearDepartmentFilter
    \/ \E nodeId \in InitialIds : toggleNodeCollapse(nodeId)

SpecSearch == InitCalls /\ [][NextSearch]_vars

(***************************************************************************)
(* The layout pass on arbitrary forests: every ordered forest of at most    *)
(* MaxLayoutNodes nodes, its nodes numbered in preorder (a parent before    *)
(* its children, siblings and roots left to right).  Before the pass the    *)
(* nodes either are stacked at (0, 50), have level = depth + 1 and are      *)
(* listed in id order, or are stacked at (1200, 100), have level 1 and are  *)
(* listed in reverse id order.                                              *)
(***************************************************************************)
\* positions the nodes have before the pass
StalePositions == { [x |-> 0, y |-> 50], [x |-> 1200, y |-> 100] }

RECURSIVE ParentChoices(_)
\* the parent of each of n nodes, 0 for a root, a parent numbered below its child
ParentChoices(n) ==
    IF n = 0 THEN { <<>> }
    ELSE { Append(par, k) : par \in ParentChoices(n - 1), k \in 0..(n - 1) }

RECURSIVE forestEdges(_, _)
\* the edge list of par, ordered by child
forestEdges(par, n) ==
    IF n = 0 THEN <<>>
    ELSE IF par[n] = 0 THEN forestEdges(par, n - 1)
    ELSE Append(forestEdges(par, n - 1),
                mkEdge("e" \o ToString(par[n]) \o "-" \o ToString(n),
                       ToString(par[n]), ToString(n)))

RECURSIVE parDepth(_, _)
\* edge distance of node i from its root under par
parDepth(par, i) == IF par[i] = 0 THEN 0 ELSE 1 + parDepth(par, par[i])

InitLayout ==
    \E n \in 1..MaxLayoutNodes :
      \E par \in ParentChoices(n), stale \in StalePositions :
        LET inIdOrder == (stale.x = 0)
            nodeAt(i) == IF inIdOrder THEN i ELSE n + 1 - i
        IN  /\ nodes = [i \in 1..n |->
                          mkNode(ToString(nodeAt(i)), stale.x, stale.y,
                                 newEmployee(ToString(nodeAt(i)),
                                             IF inIdOrder
                                             THEN parDepth(par, nodeAt(i)) + 1
                                             ELSE 1))]
            /\ edges = forestEdges(par, n)
            /\ collapsedNodes = {}
            /\ selectedDepartments = {}
            /\ searchQuery = ""
            /\ searchResults = <<>>
            /\ selectedNode = NoSelection
            /\ timers = NoTimers
            /\ chat = NoChat
            /\ jobDescription = NoJobDescription
            /\ last = Op("init", "", "", EmptyMap, "ok", {})
            /\ pre = Snapshot
            /\ steps = 0

NextLayout == handleAutoLayout

SpecLayout == InitLayout /\ [][NextLayout]_vars

(***************************************************************************)
(* Collapse and expand on arbitrary forests: every ordered forest of at     *)
(* most MaxCollapseNodes nodes with any of its nodes collapsed, toggled at  *)
(* an id of the forest or at an id that is not there.                       *)
(***************************************************************************)
\* ids toggleNodeCollapse is called with
CollapseIds == { ToString(i) : i \in 1..(MaxCollapseNodes + 1) }

InitCollapse ==
    \E n \in 1..MaxCollapseNodes :
      \E par \in ParentChoices(n), collapsed \in SUBSET { ToString(i) : i \in 1..n } :
        /\ nodes = [i \in 1..n |->
                      mkNode(ToString(i), 0, 50,
                             newEmployee(ToString(i), parDepth(par, i) + 1))]
        /\ edges = forestEdges(par, n)
        /\ collapsedNodes = collapsed
        /\ selectedDepartments = {}
        /\ searchQuery = ""
        /\ searchResults = <<>>
        /\ selectedNode = NoSelection
        /\ timers = NoTimers
        /\ chat = NoChat
        /\ jobDescription = NoJobDescription
        /\ last = Op("init", "", "", EmptyMap, "ok", {})
        /\ pre = Snapshot
        /\ steps = MaxSteps

NextCollapse == \E nodeId \in CollapseIds : toggleNodeCollapse(nodeId)

SpecCollapse == InitCollapse /\ [][NextCollapse]_vars

(***************************************************************************)
(* The LLM endpoints and the two components that call them: the chat        *)
(* assistant (sendMessage) and the job description generator               *)
(* (handleGenerate).  A request is sent by one step and settles in a later  *)
(* one; between the two the user can go on editing the chart.               *)
(***************************************************************************)
\* what the completion call of LLMService.chat does: it returns a choice with
\* content, returns one without content, or throws an error whose message
\* names the API key, the rate limit, a timeout or something else
LLMOutcomes == {"content", "noContent", "apiKey", "rateLimit", "timeout", "other"}

\* what becomes of the HTTP exchange: the route's JSON response is delivered,
\* fetch rejects (no network), or the body that arrives is not JSON
Transports == {"delivered", "fetchRejects", "notJson"}

\* LLMService.chat: the content, or the error it throws
chatService(llm) ==
    IF llm = "content" THEN [content |-> "LLMContent"]
    ELSE IF llm = "apiKey" THEN [throws |-> "ApiKeyMisconfigured"]
    ELSE IF llm = "rateLimit" THEN [throws |-> "RateLimitExceeded"]
    ELSE IF llm = "timeout" THEN [throws |-> "ApiCallTimedOut"]
    ELSE [throws |-> "LLMUnavailable"]

\* a || b on strings
orElse(a, b) == IF a = "" THEN b ELSE a

\* POST /api/llm/chat: the response for a question.  The lists the component
\* sends are the store's node and edge arrays.
chatRoute(question, llm) ==
    IF trim(question) = ""
    THEN [ok |-> FALSE, error |-> "PleaseEnterQuestion", answer |-> ""]
    ELSE LET response == chatService(llm) IN
         IF "throws" \in DOMAIN response
         THEN [ok |-> FALSE, error |-> response.throws, answer |-> ""]
         ELSE [ok |-> TRUE, error |-> "", answer |-> response.content]

\* POST /api/llm/job-description: the response for an employee
jobDescriptionRoute(employee, llm) ==
    IF employee.name = "" \/ employee.position = ""
    THEN [ok |-> FALSE, error |-> "InvalidEmployee", jobDescription |-> ""]
    ELSE LET response == chatService(llm) IN
         IF "throws" \in DOMAIN response
         THEN [ok |-> FALSE, error |-> response.throws, jobDescription |-> ""]
         ELSE [ok |-> TRUE, error |-> "", jobDescription |-> response.content]

ChatMessage(type, content) == [type |-> type, content |-> content]

\* the content of the message the catch block of sendMessage appends
errorContent(message) == "Sorry, an error occurred: " \o message

\* sendMessage's catch block shows no message for an error
assistantMessageSilentOnError(question, transport, llm) ==
    IF transport = "fetchRejects" THEN ChatMessage("assistant", "")
    ELSE IF transport = "notJson" THEN ChatMessage("assistant", "")
    ELSE LET data == chatRoute(question, llm) IN
         IF ~data.ok THEN ChatMessage("assistant", "")
         ELSE ChatMessage("assistant", data.answer)

\* the message sendMessage appends when its request settles: the answer from
\* the try block, or the error message from the catch block
assistantMessage(question, transport, llm) ==
    IF transport = "fetchRejects"
    THEN ChatMessage("assistant", errorContent("FailedToFetch"))
    ELSE IF transport = "notJson"
    THEN ChatMessage("assistant", errorContent("UnexpectedToken"))
    ELSE LET data == chatRoute(question, llm) IN
         IF ~data.ok
         THEN ChatMessage("assistant",
                          errorContent(orElse(data.error, "ChatUnavailable")))
         ELSE ChatMessage("assistant", data.answer)

\* sendMessage goes on although a request is in flight
acceptsWhileLoading(question, isLoading) == ~(trim(question) = "")

\* the guard of sendMessage: the question is not blank and no request is in
\* flight
accepts(question, isLoading) == ~(trim(question) = "" \/ isLoading)

sendMessage(question) ==
    /\ steps > 0
    /\ IF accepts(question, chat.isLoading)
       THEN /\ chat' = [messages |-> Append(chat.messages,
                                            ChatMessage("user", question)),
                        isLoading |-> TRUE,
                        inFlight |-> Append(chat.inFlight, question)]
            /\ last' = Op("sendMessage", question, "", EmptyMap, "sent", {})
       ELSE /\ UNCHANGED chat
            /\ last' = Op("sendMessage", question, "", EmptyMap, "ignored", {})
    /\ pre' = Snapshot
    /\ steps' = steps - 1
    /\ UNCHANGED <<nodes, edges, collapsedNodes, selectedNode, searchVars, timers,
                   jobDescription>>

\* the sequence s without its i-th element
RemoveAt(s, i) == SubSeq(s, 1, i - 1) \o SubSeq(s, i + 1, Len(s))

\* a request of sendMessage settles: the rest of its try block, its catch
\* block and its finally block
settleChat(transport, llm) ==
    \E i \in DOMAIN chat.inFlight :
        /\ chat' = [messages |-> Append(chat.messages,
                                        assistantMessage(chat.inFlight[i],
                                                         transport, llm)),
                    isLoading |-> FALSE,
                    inFlight |-> RemoveAt(chat.inFlight, i)]
        /\ last' = Op("settleChat", transport, llm, EmptyMap, "ok", {})
        /\ pre' = Snapshot
        /\ UNCHANGED <<nodes, edges, collapsedNodes, selectedNode, searchVars, timers,
                       jobDescription, steps>>

\* what handleGenerate stores when its request settles: the result from the
\* try block (result "" : none) or the error from the catch block (error "" :
\* the one handleGenerate set when it sent the request)
generated(employee, transport, llm) ==
    IF transport = "fetchRejects"
    THEN [error |-> "FailedToFetch", result |-> ""]
    ELSE IF transport = "notJson"
    THEN [error |-> "UnexpectedToken", result |-> ""]
    ELSE LET data == jobDescriptionRoute(employee, llm) IN
         IF ~data.ok
         THEN [error |-> orElse(data.error, "GenerationFailed"), result |-> ""]
         ELSE [error |-> "", result |-> data.jobDescription]

\* nodes.find(node => node.id === selectedEmployeeId)?.data
selectedEmployee(ns, selectedEmployeeId) ==
    IF \E i \in DOMAIN ns : ns[i].id = selectedEmployeeId
    THEN LET i == CHOOSE i \in DOMAIN ns :
                      /\ ns[i].id = selectedEmployeeId
                      /\ \A j \in 1..(i - 1) : ns[j].id # selectedEmployeeId
         IN <<ns[i].data>>
    ELSE <<>>

\* handleGenerate, with the employee chosen in the component's select; its
\* button is disabled while a request is in flight
handleGenerate(selectedEmployeeId) ==
    /\ steps > 0
    /\ ~jobDescription.isGenerating
    /\ LET employee == selectedEmployee(nodes, selectedEmployeeId) IN
       IF employee = <<>>
       THEN /\ jobDescription' =
                   [jobDescription EXCEPT !.error = "PleaseSelectEmployee"]
            /\ last' = Op("handleGenerate", selectedEmployeeId, "", EmptyMap,
                          "noEmployee", {})
       ELSE /\ jobDescription' =
                   [jobDescription EXCEPT
                       !.isGenerating = TRUE,
                       !.error = "",
                       !.inFlight = Append(@, employee[1])]
            /\ last' = Op("handleGenerate", selectedEmployeeId, "", EmptyMap,
                          "sent", {})
    /\ pre' = Snapshot
    /\ steps' = steps - 1
    /\ UNCHANGED <<nodes, edges, collapsedNodes, selectedNode, searchVars, timers, chat>>

\* a request of handleGenerate settles
settleJobDescription(transport, llm) ==
    \E i \in DOMAIN jobDescription.inFlight :
        LET outcome == generated(jobDescription.inFlight[i], transport, llm) IN
        /\ jobDescription' =
               [isGenerating |-> FALSE,
                error |-> IF outcome.error # "" THEN outcome.error
                          ELSE jobDescription.error,
                result |-> IF outcome.error = "" THEN outcome.result
                           ELSE jobDescription.result,
                inFlight |-> RemoveAt(jobDescription.inFlight, i)]
        /\ last' = Op("settleJobDescription", transport, llm, EmptyMap, "ok", {})
        /\ pre' = Snapshot
        /\ UNCHANGED <<nodes, edges, collapsedNodes, selectedNode, searchVars, timers, chat,
                       steps>>

\* the questions of the model: blank ones and two different ones
Questions == {"", "  ", "who leads Tech", "headcount"}

NextAssistant ==
    \/ \E question \in Questions : sendMessage(question)
    \/ \E transport \in Transports, llm \in LLMOutcomes :
           settleChat(transport, llm)
    \/ \E selectedEmployeeId \in CallIds : handleGenerate(selectedEmployeeId)
    \/ \E transport \in Transports, llm \in LLMOutcomes :
           settleJobDescription(transport, llm)
    \/ \E id \in InitialIds : deleteEmployee(id)

SpecAssistant == InitCalls /\ [][NextAssistant]_vars

\* the chat assistant alone
NextChat ==
    \/ \E question \in Questions : sendMessage(question)
    \/ \E transport \in Transports, llm \in LLMOutcomes :
           settleChat(transport, llm)

\* a request that was sent settles: the HTTP exchange ends one way or the other
SettleChat ==
    \E transport \in Transports, llm \in LLMOutcomes : settleChat(transport, llm)

SpecChat == InitCalls /\ [][NextChat]_vars /\ WF_vars(SettleChat)

(***************************************************************************)
(* Deferred layout.  The handlers of the toolbar and of the node cards      *)
(* change the store and hand the layout to a timer; deleteEmployee does so  *)
(* itself.  timers.autoLayout counts the pending timers that will call the  *)
(* store's autoLayout(), which starts a second timer; timers.layout counts  *)
(* the pending timers that will run the layout pass.  Timers fire in any    *)
(* order, between any two clicks.                                           *)
(***************************************************************************)
\* parseInt of a node id (the ids of the model have at most two digits)
parseInt(id) == CHOOSE n \in 0..99 : ToString(n) = id

\* Math.max(...values, 0)
MathMax(values) == CHOOSE v \in values \cup {0} : \A w \in values \cup {0} : w <= v

\* (Math.max(...nodes.map(n => parseInt(n.id)), 0) + 1).toString()
newId(ns) == ToString(MathMax({ parseInt(ns[i].id) : i \in DOMAIN ns }) + 1)

\* the data of the rendered card with the given id
cardData(ns, id) == (CHOOSE n \in Range(ns) : n.id = id).data

\* the toolbar's handleAddEmployee
handleAddEmployee(x) ==
    /\ steps > 0
    /\ LET employee == newEmployee(newId(nodes), 2) IN
       /\ nodes' = addEmployeeNodes(nodes, employee, x)
       /\ edges' = addEmployeeEdges(edges, employee, NoParent)
       /\ last' = Op("handleAddEmployee", employee.id, NoParent, employee, "ok", {})
    /\ timers' = [timers EXCEPT !.layout = schedule(@)]
    /\ pre' = Snapshot
    /\ steps' = steps - 1
    /\ UNCHANGED <<collapsedNodes, selectedNode, searchVars, chat, jobDescription>>

\* handleAddSubordinate of the card of node id
handleAddSubordinate(id, x) ==
    /\ steps > 0
    /\ id \in NodeIdsOf(nodes)
    /\ LET data == cardData(nodes, id)
           employee == mkEmployee(newId(nodes), "NewEmployee", "Position",
                                  data.department, "email@company.com",
                                  data.level + 1)
       IN  /\ nodes' = addEmployeeNodes(nodes, employee, x)
           /\ edges' = addEmployeeEdges(edges, employee, id)
           /\ last' = Op("handleAddSubordinate", employee.id, id, employee, "ok", {})
    /\ timers' = [timers EXCEPT !.autoLayout = schedule(@)]
    /\ pre' = Snapshot
    /\ steps' = steps - 1
    /\ UNCHANGED <<collapsedNodes, selectedNode, searchVars, chat, jobDescription>>

\* handleToggleCollapse of the card of node id
handleToggleCollapse(id) ==
    /\ steps > 0
    /\ id \in NodeIdsOf(nodes)
    /\ collapsedNodes' = toggleSet(collapsedNodes, id)
    /\ timers' = [timers EXCEPT !.autoLayout = schedule(@)]
    /\ last' = Op("handleToggleCollapse", id, "", EmptyMap, "ok", {})
    /\ pre' = Snapshot
    /\ steps' = steps - 1
    /\ UNCHANGED <<nodes, edges, selectedNode, searchVars, chat, jobDescription>>

\* handleDelete of the card of node id
handleDelete(id) ==
    /\ id \in NodeIdsOf(nodes)
    /\ deleteEmployee(id)

\* a timer set by a card fires: the store's autoLayout() sets the timer of the
\* layout callback
autoLayout ==
    /\ timers.autoLayout > 0
    /\ timers' = [autoLayout |-> timers.autoLayout - 1,
                  layout |-> schedule(timers.layout)]
    /\ last' = Op("autoLayout", "", "", EmptyMap, "ok", {})
    /\ pre' = Snapshot
    /\ UNCHANGED <<nodes, edges, collapsedNodes, selectedNode, searchVars, chat,
                   jobDescription, steps>>

\* a timer of the layout callback fires: one pass over the store as it is now
layoutTimer ==
    /\ timers.layout > 0
    /\ LET outcome == layoutOutcome(nodes, edges)
       IN  /\ nodes' = outcome.nodes
           /\ last' = Op("layoutTimer", "", "", EmptyMap,
                         outcome.result, outcome.assigned)
    /\ timers' = [timers EXCEPT !.layout = @ - 1]
    /\ pre' = Snapshot
    /\ UNCHANGED <<edges, collapsedNodes, selectedNode, searchVars, chat, jobDescription,
                   steps>>

\* the cards the model clicks on
CardIds == {"1", "2", "7"}

\* the chart as mounted: the default data set, the layout callback registered
\* and the timer of the first pass pending
InitTimers ==
    /\ nodes = initialNodes
    /\ edges = initialEdges
    /\ collapsedNodes = {}
    /\ selectedDepartments = {}
    /\ searchQuery = ""
    /\ searchResults = <<>>
    /\ selectedNode = NoSelection
    /\ timers = [autoLayout |-> 0, layout |-> 1]
    /\ chat = NoChat
    /\ jobDescription = NoJobDescription
    /\ last = Op("init", "", "", EmptyMap, "ok", {})
    /\ pre = Snapshot
    /\ steps = MaxCalls

NextTimers ==
    \/ \E x \in RandomX : handleAddEmployee(x)
    \/ \E id \in CardIds, x \in RandomX : handleAddSubordinate(id, x)
    \/ \E id \in CardIds : handleToggleCollapse(id)
    \/ \E id \in CardIds : handleDelete(id)
    \/ autoLayout
    \/ layoutTimer

SpecTimers == InitTimers /\ [][NextTimers]_vars

(***************************************************************************)
(* Node changes reported by the canvas.  While a card is dragged the canvas *)
(* reports position changes with dragging true; when the card is dropped    *)
(* it reports one more position change, with dragging false.                *)
(***************************************************************************)
\* a position change of the canvas
positionChange(id, x, y, dragging) ==
    [type |-> "position", id |-> id, position |-> [x |-> x, y |-> y],
     dragging |-> dragging]

\* changes.filter(...) of the chart's onNodesChange: the position changes of a
\* drag in progress are dropped
filteredChanges(changes) ==
    Flatten([i \in DOMAIN changes |->
                IF changes[i].type = "position" /\ changes[i].dragging
                THEN <<>> ELSE <<changes[i]>>])

\* a node after a position change of the canvas library's applyNodeChanges
applyChange(node, change) ==
    [f \in DOMAIN node \cup {"dragging"} |->
        IF f = "position" THEN change.position
        ELSE IF f = "dragging" THEN change.dragging
        ELSE node[f]]

\* applyNodeChanges(changes, nodes) of the canvas library, for position changes
RECURSIVE applyNodeChanges(_, _)
applyNodeChanges(changes, ns) ==
    IF changes = <<>> THEN ns
    ELSE applyNodeChanges(Tail(changes),
                          [i \in DOMAIN ns |->
                              IF ns[i].id = Head(changes).id
                              THEN applyChange(ns[i], Head(changes))
                              ELSE ns[i]])

\* the chart's onNodesChange followed by the store's
onNodesChange(changes) ==
    /\ steps > 0
    /\ nodes' = applyNodeChanges(filteredChanges(changes), nodes)
    /\ last' = Op("onNodesChange", "", "", [changes |-> changes], "ok", {})
    /\ pre' = Snapshot
    /\ steps' = steps - 1
    /\ UNCHANGED <<edges, collapsedNodes, selectedNode, searchVars, uiVars>>

\* the reports of the canvas for the card of node 2 and for the cards of nodes
\* 2 and 7 dragged together: a move during the drag, and the drop
DragChanges ==
    { <<positionChange("2", 10, 20, dragging)>> : dragging \in BOOLEAN }
    \cup { <<positionChange("2", 10, 20, dragging),
             positionChange("7", 30, 40, dragging)>> : dragging \in BOOLEAN }

NextDrag ==
    \/ \E changes \in DragChanges : onNodesChange(changes)
    \/ \E id \in CallIds, data \in Partials : updateEmployee(id, data)
    \/ \E sourceId \in CallIds, targetId \in CallIds :
           replaceNodeData(sourceId, targetId)
    \/ \E id \in CallIds : deleteEmployee(id)
    \/ \E nodeId \in CallIds : toggleNodeCollapse(nodeId)

SpecDrag == InitCalls /\ [][NextDrag]_vars

(***************************************************************************)
(* Sequences of addEmployee and deleteEmployee calls on the default data    *)
(* set, with an id of the data set, new ids, and new ids that contain the   *)
(* hyphen of the edge id.                                                   *)
(***************************************************************************)
EdgeChildIds == {"2", "4", "1-2", "2-4"}

EdgeParentIds == {"1", "1-2", NoParent}

\* the store as constructed, one call more than MaxCalls to go
InitEdges ==
    /\ nodes = initialNodes
    /\ edges = initialEdges
    /\ collapsedNodes = {}
    /\ selectedDepartments = {}
    /\ searchQuery = ""
    /\ searchResults = <<>>
    /\ selectedNode = NoSelection
    /\ timers = NoTimers
    /\ chat = NoChat
    /\ jobDescription = NoJobDescription
    /\ last = Op("init", "", "", EmptyMap, "ok", {})
    /\ pre = Snapshot
    /\ steps = MaxCalls + 1

NextEdges ==
    \/ \E id \in EdgeChildIds, parentId \in EdgeParentIds, x \in RandomX :
           addEmployee(newEmployee(id, 2), parentId, x)
    \/ \E id \in EdgeChildIds : deleteEmployee(id)

SpecEdges == InitEdges /\ [][NextEdges]_vars

(***************************************************************************)
(* The layout pass among the operations that set what it must leave alone:  *)
(* the selection, the search, the department filter, the collapse set, and  *)
(* connections that take the last root away or give a node a second parent. *)
(***************************************************************************)
FrameQueries == {"CTO", "zzz"}

FrameConnections == {<<"2", "1">>, <<"3", "2">>}

NextFrame ==
    \/ \E id \in InitialIds : setSelectedNode(id)
    \/ \E query \in FrameQueries : setSearchQuery(query)
    \/ \E departmentName \in DepartmentNames : toggleDepartmentFilter(departmentName)
    \/ \E nodeId \in InitialIds : toggleNodeCollapse(nodeId)
    \/ \E connection \in FrameConnections : onConnect(connection[1], connection[2])
    \/ handleAutoLayout

SpecFrame == InitCalls /\ [][NextFrame]_vars

(***************************************************************************)
(* The search among the operations that change the nodes it has matched.    *)
(***************************************************************************)
NextStale ==
    \/ \E query \in SearchQueries : setSearchQuery(query)
    \/ clearSearch
    \/ \E id \in InitialIds : deleteEmployee(id)
    \/ \E id \in InitialIds, data \in Partials : updateEmployee(id, data)

SpecStale == InitCalls /\ [][NextStale]_vars

(***************************************************************************)
(* Vocabulary of the properties.                                           *)
(***************************************************************************)
\* the store (ns, es) is a forest: distinct node ids, no dangling edge, at most
\* one incoming edge per node, no cycle
IsForest(ns, es) ==
    /\ \A i, j \in DOMAIN ns : ns[i].id = ns[j].id => i = j
    /\ \A e \in Range(es) : e.source \in NodeIdsOf(ns) /\ e.target \in NodeIdsOf(ns)
    /\ \A i, j \in DOMAIN es : es[i].target = es[j].target => i = j
    /\ \A id \in NodeIdsOf(ns) : id \notin ProperDescendants(es, id)

\* the subtree of id: id and everything below it
Subtree(es, id) == ReachFrom(es, {id})

\* the position of the (only) node with this id
PosOf(ns, id) == (CHOOSE n \in Range(ns) : n.id = id).position

MinX(ns, ids) == CHOOSE v \in { PosOf(ns, id).x : id \in ids } :
                     \A id \in ids : v <= PosOf(ns, id).x

MaxX(ns, ids) == CHOOSE v \in { PosOf(ns, id).x : id \in ids } :
                     \A id \in ids : v >= PosOf(ns, id).x

RECURSIVE SumSeq(_)
SumSeq(s) == IF s = <<>> THEN 0 ELSE Head(s) + SumSeq(Tail(s))

RECURSIVE DepthOf(_, _)
\* edge distance of id from its root in a forest
DepthOf(es, id) ==
    IF HasParent(es, id)
    THEN 1 + DepthOf(es, (CHOOSE e \in Range(es) : e.target = id).source)
    ELSE 0

\* the last operation was a layout pass that ran to its end
LayoutRan == last.op = "handleAutoLayout" /\ last.result = "ok"

\* number of leaves below (or at) id
LeafCount(es, id) ==
    Cardinality({ d \in Subtree(es, id) : ChildrenOf(es, d) = <<>> })

\* x coordinates of a sequence of ids
XsOf(ns, ids) == [i \in DOMAIN ids |-> PosOf(ns, ids[i]).x]

\* the node list with every position replaced by p
Restale(ns, p) == [i \in DOMAIN ns |-> [ns[i] EXCEPT !.position = p]]

\* the node list with every payload level replaced by lv
Relevel(ns, lv) == [i \in DOMAIN ns |-> [ns[i] EXCEPT !.data.level = lv]]

PositionsOf(ns) == [i \in DOMAIN ns |-> ns[i].position]

(***************************************************************************)
(* C1: deleteEmployee(id) on a forest, id present, removes exactly id and   *)
(* its descendants (|descendants| + 1 nodes) and every edge touching one of *)
(* them; every other node (payload and position) and edge is unchanged.     *)
(***************************************************************************)
DeletedExactlySubtree ==
    ( /\ last.op = "deleteEmployee"
      /\ last.a \in NodeIdsOf(pre.nodes)
      /\ IsForest(pre.nodes, pre.edges) )
    => LET gone == Subtree(pre.edges, last.a)
       IN  /\ last.result = "ok"
           /\ nodes = SelectSeq(pre.nodes, LAMBDA n : n.id \notin gone)
           /\ edges = SelectSeq(pre.edges,
                                LAMBDA e : e.source \notin gone /\ e.target \notin gone)
           /\ Len(nodes) = Len(pre.nodes)
                           - (Cardinality(ProperDescendants(pre.edges, last.a)) + 1)
           /\ collapsedNodes = pre.collapsedNodes

\* a node with descendants was deleted from a forest and other nodes and edges remain
DeletedExactlySubtreeWitness ==
    /\ last.op = "deleteEmployee"
    /\ last.a \in NodeIdsOf(pre.nodes)
    /\ IsForest(pre.nodes, pre.edges)
    /\ ProperDescendants(pre.edges, last.a) # {}
    /\ Len(nodes) > 1
    /\ Len(edges) > 0

(***************************************************************************)
(* C2: layout is idempotent: a second pass with no structural change gives  *)
(* every node the position of the first pass, and the result of a pass does *)
(* not depend on the positions the nodes had before it.                     *)
(***************************************************************************)
LayoutIdempotent ==
    LayoutRan =>
        /\ layoutOutcome(nodes, edges).nodes = nodes
        /\ \A p \in StalePositions :
              layoutOutcome(Restale(pre.nodes, p), pre.edges).nodes = nodes

\* a pass has moved the nodes of a forest of at least three nodes
LayoutIdempotentWitness ==
    /\ LayoutRan
    /\ Len(nodes) >= 3
    /\ edges # <<>>
    /\ PositionsOf(nodes) # PositionsOf(pre.nodes)

SiblingSubtreesDisjoint ==
    LayoutRan =>
        \A e1, e2 \in Range(edges) :
            (e1.source = e2.source /\ e1.target # e2.target) =>
                LET a == Subtree(edges, e1.target)
                    b == Subtree(edges, e2.target)
                IN  \/ MaxX(nodes, a) + cardWidth \div 2 < MinX(nodes, b) - cardWidth \div 2
                    \/ MaxX(nodes, b) + cardWidth \div 2 < MinX(nodes, a) - cardWidth \div 2

\* a pass has run on a forest where a sibling's subtree is more than one slot wide
SiblingSubtreesDisjointWitness ==
    /\ LayoutRan
    /\ \E e1, e2 \in Range(edges) :
          /\ e1.source = e2.source
          /\ e1.target # e2.target
          /\ LeafCount(edges, e1.target) >= 2

(***************************************************************************)
(* C5: after a layout pass every node's y is 100 + 280 * d, d its edge      *)
(* distance from its root; the positions do not depend on the payload       *)
(* field level.                                                            *)
(***************************************************************************)
RowsByDepth ==
    LayoutRan =>
        /\ \A id \in NodeIdsOf(nodes) :
              PosOf(nodes, id).y = startY + verticalSpacing * DepthOf(edges, id)
        /\ \A lv \in {1, 5} :
              PositionsOf(layoutOutcome(Relevel(pre.nodes, lv), pre.edges).nodes)
                = PositionsOf(nodes)

\* a pass has run on a forest with a node two edges below its root whose level
\* is not its depth plus one
RowsByDepthWitness ==
    /\ LayoutRan
    /\ \E i \in DOMAIN nodes :
          /\ DepthOf(edges, nodes[i].id) >= 2
          /\ nodes[i].data.level # DepthOf(edges, nodes[i].id) + 1

(***************************************************************************)
(* C6: with several roots, the root subtrees are placed left to right in    *)
(* node-list order: the first root's span starts at 1200 - width * 650 / 2  *)
(* and each further root's span starts 650 to the right of the end of the   *)
(* previous root's span.                                                    *)
(***************************************************************************)
SpanStart(ns, es, id) == MinX(ns, Subtree(es, id)) - horizontalSpacing \div 2

SpanEnd(ns, es, id) == MaxX(ns, Subtree(es, id)) + horizontalSpacing \div 2

RootsLeftToRight ==
    LayoutRan =>
        LET roots == rootNodes(nodes, edges)
        IN  /\ SpanEnd(nodes, edges, roots[1].id) - SpanStart(nodes, edges, roots[1].id)
                 = LeafCount(edges, roots[1].id) * horizontalSpacing
            /\ 2 * SpanStart(nodes, edges, roots[1].id)
                 = 2 * canvasCenterX - LeafCount(edges, roots[1].id) * horizontalSpacing
            /\ \A i \in 1..(Len(roots) - 1) :
                  SpanStart(nodes, edges, roots[i + 1].id)
                    = SpanEnd(nodes, edges, roots[i].id) + horizontalSpacing

\* a pass has run on a forest with three roots, one of them more than a slot wide
RootsLeftToRightWitness ==
    /\ LayoutRan
    /\ Len(rootNodes(nodes, edges)) >= 3
    /\ \E i \in DOMAIN nodes : LeafCount(edges, nodes[i].id) >= 2

(***************************************************************************)
(* C7: in any state reachable through the store's operations, a layout pass *)
(* assigns a computed position to every visible node.  Stated for the       *)
(* stores whose node ids are distinct and whose edges join two different    *)
(* present nodes, where it already fails.                                   *)
(***************************************************************************)
LayoutPositionsEveryVisibleNode ==
    ( /\ last.op = "handleAutoLayout"
      /\ \A i, j \in DOMAIN nodes : nodes[i].id = nodes[j].id => i = j
      /\ \A e \in Range(edges) : /\ e.source \in NodeIdsOf(nodes)
                                 /\ e.target \in NodeIdsOf(nodes)
                                 /\ e.source # e.target )
    => \A n \in Range(getVisibleNodes(nodes, edges, collapsedNodes)) :
          n.id \in last.assigned

(***************************************************************************)
(* C8: the width pass counts only visible children: after toggleCollapse    *)
(* and a layout pass on a forest, the visible nodes are placed as a layout  *)
(* of the visible nodes and visible edges alone places them (a collapsed    *)
(* subtree takes one slot).                                                 *)
(***************************************************************************)
CollapsedSubtreeTakesOneSlot ==
    (LayoutRan /\ IsForest(nodes, edges)) =>
        LET visible == layoutOutcome(getVisibleNodes(nodes, edges, collapsedNodes),
                                     getVisibleEdges(nodes, edges, collapsedNodes)).nodes
        IN  \A i \in DOMAIN visible :
                PosOf(nodes, visible[i].id) = visible[i].position

(***************************************************************************)
(* C9: addEmployee with an id already in the node list is rejected as a     *)
(* validation error and leaves nodes and edges unchanged, so node ids stay  *)
(* pairwise distinct.                                                       *)
(***************************************************************************)
DuplicateIdRejected ==
    /\ \A i, j \in DOMAIN nodes : nodes[i].id = nodes[j].id => i = j
    /\ (last.op = "addEmployee" /\ last.a \in NodeIdsOf(pre.nodes)) =>
          /\ last.result = "ValidationError"
          /\ nodes = pre.nodes
          /\ edges = pre.edges

(***************************************************************************)
(* C10: updateEmployee(id, partial) on an existing node merges the given    *)
(* fields into its payload and changes nothing else: node id, payload id    *)
(* and position are unaltered for every partial payload; other nodes, the   *)
(* edges and the collapse set are unchanged.                                *)
(***************************************************************************)
UpdateKeepsIdAndPosition ==
    (last.op = "updateEmployee" /\ last.a \in NodeIdsOf(pre.nodes)) =>
        /\ DOMAIN nodes = DOMAIN pre.nodes
        /\ \A i \in DOMAIN nodes :
              /\ nodes[i].id = pre.nodes[i].id
              /\ nodes[i].position = pre.nodes[i].position
              /\ nodes[i].data.id = pre.nodes[i].data.id
              /\ pre.nodes[i].id # last.a => nodes[i] = pre.nodes[i]
              /\ pre.nodes[i].id = last.a =>
                    \A f \in DOMAIN pre.nodes[i].data \ {"id"} :
                        nodes[i].data[f] = IF f \in DOMAIN last.data
                                           THEN last.data[f]
                                           ELSE pre.nodes[i].data[f]
        /\ edges = pre.edges
        /\ collapsedNodes = pre.collapsedNodes

(***************************************************************************)
(* C11: toggleNodeCollapse(id) flips the membership of id in the collapse   *)
(* set and nothing else: the node list (payloads and positions) and the     *)
(* edge list are as before, every other id is collapsed exactly when it     *)
(* was, and toggling id once more gives back the collapse set from before.  *)
(***************************************************************************)
ToggleFlipsOnlyItsId ==
    last.op = "toggleNodeCollapse" =>
        /\ nodes = pre.nodes
        /\ edges = pre.edges
        /\ (last.a \in collapsedNodes) <=> (last.a \notin pre.collapsedNodes)
        /\ \A id \in (collapsedNodes \cup pre.collapsedNodes \cup CollapseIds) \ {last.a} :
              (id \in collapsedNodes) <=> (id \in pre.collapsedNodes)
        /\ toggleSet(collapsedNodes, last.a) = pre.collapsedNodes

\* a collapsed node is expanded while another node stays collapsed
ToggleFlipsOnlyItsIdWitness ==
    /\ last.op = "toggleNodeCollapse"
    /\ last.a \in pre.collapsedNodes
    /\ last.a \notin collapsedNodes
    /\ collapsedNodes # {}

\* the id names exactly one node of ns
NamesOneNode(ns, id) == Cardinality({ i \in DOMAIN ns : ns[i].id = id }) = 1

\* replaceNodeData(source, target) has moved the source's payload onto the
\* target and left on the source a vacant payload named vacantName; nothing
\* else of the store has changed
ReplaceOutcome(vacantName) ==
    LET sourceId == last.a
        targetId == last.b
        sourceData == findNode(pre.nodes, sourceId).data
    IN  /\ edges = pre.edges
        /\ collapsedNodes = pre.collapsedNodes
        /\ DOMAIN nodes = DOMAIN pre.nodes
        /\ \A i \in DOMAIN nodes :
              /\ nodes[i].id = pre.nodes[i].id
              /\ nodes[i].position = pre.nodes[i].position
              /\ nodes[i].data =
                    IF nodes[i].id = targetId
                    THEN [sourceData EXCEPT !.id = targetId]
                    ELSE IF nodes[i].id = sourceId
                    THEN [id |-> sourceId, name |-> vacantName,
                          position |-> "Unassigned", department |-> "Unassigned",
                          email |-> "", level |-> pre.nodes[i].data.level]
                    ELSE pre.nodes[i].data

\* replaceNodeData was called with two different ids, each naming one node
ReplaceApplies ==
    /\ last.op = "replaceNodeData"
    /\ last.a # last.b
    /\ NamesOneNode(pre.nodes, last.a)
    /\ NamesOneNode(pre.nodes, last.b)

(***************************************************************************)
(* C12 as stated: after replaceNodeData(source, target), both present and   *)
(* distinct, the target carries the source's former payload under the       *)
(* target's id and the source carries the vacant payload with an empty      *)
(* name, placeholder title and department, empty contact and the source's   *)
(* level; edges, positions and all other nodes are unchanged.               *)
(***************************************************************************)
ReplaceLeavesEmptyName == ReplaceApplies => ReplaceOutcome("")

(***************************************************************************)
(* C12, amended: as above, but the vacant payload's name is the placeholder *)
(* 'VacantPosition' (the source's literal for a vacant position), not the   *)
(* empty string.                                                            *)
(***************************************************************************)
ReplaceLeavesVacantPosition == ReplaceApplies => ReplaceOutcome("VacantPosition")

\* the CTO's payload has been moved onto another node
ReplaceLeavesVacantPositionWitness ==
    /\ ReplaceApplies
    /\ findNode(pre.nodes, last.a).data.name = "LiMeiling"
    /\ findNode(nodes, last.b).data.name = "LiMeiling"
    /\ findNode(nodes, last.b).data.id = last.b
    /\ findNode(nodes, last.a).data.name = "VacantPosition"
    /\ findNode(nodes, last.a).data.level = 2

\* no two nodes of ns have the same id
DistinctIds(ns) == \A i, j \in DOMAIN ns : ns[i].id = ns[j].id => i = j

\* the last operation was handed an id that no node of the store had
CalledWithMissingId ==
    \/ /\ last.op \in {"deleteEmployee", "updateEmployee"}
       /\ last.a \notin NodeIdsOf(pre.nodes)
    \/ /\ last.op = "replaceNodeData"
       /\ \/ last.a \notin NodeIdsOf(pre.nodes)
          \/ last.b \notin NodeIdsOf(pre.nodes)

(***************************************************************************)
(* C13: deleteEmployee(id), updateEmployee(id, data) and                    *)
(* replaceNodeData(a, b) called with an id that is not in the store raise   *)
(* no error and leave the node list, the edge list and the collapse set     *)
(* exactly as they were (checked on stores whose node ids are distinct).    *)
(***************************************************************************)
MissingIdIsNoOp ==
    (CalledWithMissingId /\ DistinctIds(pre.nodes)) =>
        /\ last.result = "ok"
        /\ nodes = pre.nodes
        /\ edges = pre.edges
        /\ collapsedNodes = pre.collapsedNodes

(***************************************************************************)
(* C14: swapData(a, b) exchanges the payloads of the two nodes, each node   *)
(* keeping its own id and its own level; edges and positions are untouched, *)
(* and swapping the same two nodes again restores both payloads exactly.    *)
(***************************************************************************)
SwapExchangesPayloads ==
    (/\ last.op = "swapData"
     /\ NamesOneNode(pre.nodes, last.a)
     /\ NamesOneNode(pre.nodes, last.b)) =>
        LET dataA == findNode(pre.nodes, last.a).data
            dataB == findNode(pre.nodes, last.b).data
        IN  /\ edges = pre.edges
            /\ collapsedNodes = pre.collapsedNodes
            /\ DOMAIN nodes = DOMAIN pre.nodes
            /\ \A i \in DOMAIN nodes :
                  /\ nodes[i].id = pre.nodes[i].id
                  /\ nodes[i].position = pre.nodes[i].position
                  /\ nodes[i].data.id = pre.nodes[i].data.id
                  /\ nodes[i].data.level = pre.nodes[i].data.level
                  /\ \A f \in {"name", "position", "department", "email"} :
                        nodes[i].data[f] =
                            IF nodes[i].id = last.a THEN dataB[f]
                            ELSE IF nodes[i].id = last.b THEN dataA[f]
                            ELSE pre.nodes[i].data[f]
            /\ swapDataNodes(nodes, last.a, last.b) = pre.nodes

\* the CEO (level 1) and the frontend lead (level 3) have traded payloads
SwapExchangesPayloadsWitness ==
    /\ last.op = "swapData"
    /\ last.a = "1"
    /\ last.b = "7"
    /\ findNode(pre.nodes, "1").data.name = "ZhangMinghua"
    /\ findNode(nodes, "1").data.name = "WuXiaoming"
    /\ findNode(nodes, "1").data.level = 1
    /\ findNode(nodes, "7").data.name = "ZhangMinghua"
    /\ findNode(nodes, "7").data.level = 3

\* some stretch of str equals sub when letter case is ignored
ContainsIgnoringCase(str, sub) ==
    \E k \in 0..(Len(str) - Len(sub)) :
        toLowerCase(SubSeq(str, k + 1, k + Len(sub))) = toLowerCase(sub)

\* ids of the nodes with a searchable field containing sub, case ignored
IdsContaining(ns, sub) ==
    { n.id : n \in { m \in Range(ns) :
                       \E f \in {"name", "position", "department", "email"} :
                           ContainsIgnoringCase(m.data[f], sub) } }

\* searchEmployees(last.a) has returned and stored the ids of the nodes
\* containing sub, or nothing when the query is blank
SearchOutcome(sub) ==
    /\ searchResults = last.data.returned
    /\ Len(searchResults) = Cardinality(Range(searchResults))
    /\ Range(searchResults) =
          IF trim(last.a) = "" THEN {} ELSE IdsContaining(pre.nodes, sub)
    /\ nodes = pre.nodes
    /\ searchQuery = pre.searchQuery

(***************************************************************************)
(* C15 as stated: searchEmployees(q) returns, and stores in searchResults,  *)
(* exactly the ids of the nodes whose name, position, department or email   *)
(* contains q as a case-insensitive substring; an empty or whitespace-only  *)
(* q gives the empty result.                                                *)
(***************************************************************************)
SearchMatchesQueryAsTyped ==
    last.op = "searchEmployees" => SearchOutcome(last.a)

(***************************************************************************)
(* C15, amended: the substring looked for is q without its leading and      *)
(* trailing whitespace.                                                     *)
(***************************************************************************)
SearchMatchesTrimmedQuery ==
    last.op = "searchEmployees" => SearchOutcome(trim(last.a))

\* a padded, capitalised query has found the two leads
SearchMatchesTrimmedQueryWitness ==
    /\ last.op = "searchEmployees"
    /\ last.a = " Lead "
    /\ searchResults = <<"7", "8">>

\* the ids in seq, which lists nodes of ns in the order ns has them
IsSublistOf(seq, ns) ==
    \E pick \in SUBSET DOMAIN ns :
        seq = SelectSeq([i \in DOMAIN ns |-> IF i \in pick THEN ns[i] ELSE <<>>],
                        LAMBDA n : n # <<>>)

(***************************************************************************)
(* C16: getFilteredNodes returns all nodes when no department is selected   *)
(* and otherwise exactly the nodes whose department is selected;            *)
(* toggleDepartmentFilter(name) flips the membership of name and of no      *)
(* other name, and clearDepartmentFilter empties the selection; neither     *)
(* touches anything else of the store.                                      *)
(***************************************************************************)
DepartmentFilterSelects ==
    LET filtered == getFilteredNodes(nodes, selectedDepartments)
    IN  /\ selectedDepartments = {} => filtered = nodes
        /\ selectedDepartments # {} =>
              /\ IsSublistOf(filtered, nodes)
              /\ \A n \in Range(nodes) :
                    (n \in Range(filtered)) <=> (n.data.department \in selectedDepartments)
        /\ last.op = "toggleDepartmentFilter" =>
              /\ (last.a \in selectedDepartments) <=> (last.a \notin pre.selectedDepartments)
              /\ selectedDepartments \ {last.a} = pre.selectedDepartments \ {last.a}
        /\ last.op = "clearDepartmentFilter" => selectedDepartments = {}
        /\ last.op \in {"toggleDepartmentFilter", "clearDepartmentFilter"} =>
              /\ nodes = pre.nodes
              /\ edges = pre.edges
              /\ collapsedNodes = pre.collapsedNodes
              /\ searchQuery = pre.searchQuery
              /\ searchResults = pre.searchResults

\* Finance is added to a selection holding Tech: the filter passes the CTO,
\* the CFO and the two leads and holds back the CEO
DepartmentFilterSelectsWitness ==
    /\ last.op = "toggleDepartmentFilter"
    /\ last.a = "Finance"
    /\ pre.selectedDepartments = {"Tech"}
    /\ selectedDepartments = {"Tech", "Finance"}
    /\ NodeIdsOf(getFilteredNodes(nodes, selectedDepartments)) = {"2", "3", "7", "8"}

RECURSIVE AncestorsOf(_, _)
\* the ids above id: its parents, their parents, and so on (es has no cycle)
AncestorsOf(es, id) ==
    LET parents == { e.source : e \in { f \in Range(es) : f.target = id } }
    IN  parents \cup UNION { AncestorsOf(es, p) : p \in parents }

\* the node ids with no collapsed node above them
IdsNotUnderCollapsed(ns, es, collapsed) ==
    { id \in NodeIdsOf(ns) : AncestorsOf(es, id) \cap collapsed = {} }

(***************************************************************************)
(* C17: getVisibleNodes returns exactly the nodes that have no collapsed    *)
(* node above them, in the order of the node list (a collapsed node itself  *)
(* stays visible), and getVisibleEdges exactly the edges whose source and   *)
(* target are both visible; collapsing a visible node hides exactly the     *)
(* descendants of it that were visible, and expanding it shows again        *)
(* exactly those of its descendants that no other collapsed node covers.    *)
(***************************************************************************)
VisibleIsNotUnderCollapsed ==
    LET visibleNodes == getVisibleNodes(nodes, edges, collapsedNodes)
        visibleEdges == getVisibleEdges(nodes, edges, collapsedNodes)
        visibleIds == IdsNotUnderCollapsed(nodes, edges, collapsedNodes)
        visibleBefore == NodeIdsOf(getVisibleNodes(pre.nodes, pre.edges, pre.collapsedNodes))
    IN  /\ IsSublistOf(visibleNodes, nodes)
        /\ \A n \in Range(nodes) : (n \in Range(visibleNodes)) <=> (n.id \in visibleIds)
        /\ \A c \in collapsedNodes \cap NodeIdsOf(nodes) :
              AncestorsOf(edges, c) \cap collapsedNodes = {} => c \in NodeIdsOf(visibleNodes)
        /\ IsSublistOf(visibleEdges, edges)
        /\ \A e \in Range(edges) :
              (e \in Range(visibleEdges)) <=> (e.source \in visibleIds /\ e.target \in visibleIds)
        /\ (last.op = "toggleNodeCollapse" /\ last.a \in collapsedNodes) =>
              NodeIdsOf(visibleNodes)
                  = visibleBefore \ { id \in NodeIdsOf(nodes) : last.a \in AncestorsOf(edges, id) }
        /\ (last.op = "toggleNodeCollapse" /\ last.a \notin collapsedNodes) =>
              NodeIdsOf(visibleNodes)
                  = visibleBefore \cup
                    { id \in NodeIdsOf(nodes) :
                        /\ last.a \in AncestorsOf(edges, id)
                        /\ AncestorsOf(edges, id) \cap collapsedNodes = {} }

\* the root of a chain of three is collapsed: its child and its grandchild
\* are hidden, and so is the edge between them
VisibleIsNotUnderCollapsedWitness ==
    /\ last.op = "toggleNodeCollapse"
    /\ last.a = "1"
    /\ collapsedNodes = {"1"}
    /\ Len(nodes) = 3
    /\ AncestorsOf(edges, "3") = {"1", "2"}
    /\ NodeIdsOf(getVisibleNodes(nodes, edges, collapsedNodes)) = {"1"}
    /\ getVisibleEdges(nodes, edges, collapsedNodes) = <<>>
    /\ Len(getVisibleNodes(pre.nodes, pre.edges, pre.collapsedNodes)) = 3

(***************************************************************************)
(* C18: a node is reported visible only if no collapsed node is above it,   *)
(* it is among the search results whenever a search query is set, and its   *)
(* department is selected whenever any department is selected.              *)
(***************************************************************************)
ReportedNodesPassEveryFilter ==
    \A n \in Range(getSearchFilteredNodes(nodes, edges, collapsedNodes,
                                           searchQuery, searchResults)) :
        /\ AncestorsOf(edges, n.id) \cap collapsedNodes = {}
        /\ trim(searchQuery) # "" => n.id \in Range(searchResults)
        /\ selectedDepartments # {} => n.data.department \in selectedDepartments

(***************************************************************************)
(* C19: in every state reached by addEmployee, deleteEmployee,              *)
(* updateEmployee, replaceNodeData, toggleNodeCollapse and onConnect, the   *)
(* source and the target of every edge are ids of nodes in the node list    *)
(* (checked on stores whose node ids are distinct).                         *)
(***************************************************************************)
EdgesJoinPresentNodes ==
    DistinctIds(nodes) =>
        \A e \in Range(edges) :
            e.source \in NodeIdsOf(nodes) /\ e.target \in NodeIdsOf(nodes)

(***************************************************************************)
(* C20: in every reachable state each node has at most one incoming edge    *)
(* (checked on stores whose node ids are distinct and whose edges join two  *)
(* different nodes of the node list).                                       *)
(***************************************************************************)
AtMostOneIncomingEdge ==
    (/\ DistinctIds(nodes)
     /\ \A e \in Range(edges) :
           /\ e.source \in NodeIdsOf(nodes)
           /\ e.target \in NodeIdsOf(nodes)
           /\ e.source # e.target) =>
        \A id \in NodeIdsOf(nodes) :
            Cardinality({ i \in DOMAIN edges : edges[i].target = id }) <= 1

\* every edge of es joins two different nodes of ns, and no node of ns has
\* two incoming edges
SingleParentEdges(ns, es) ==
    /\ \A e \in Range(es) :
          /\ e.source \in NodeIdsOf(ns)
          /\ e.target \in NodeIdsOf(ns)
          /\ e.source # e.target
    /\ \A id \in NodeIdsOf(ns) :
          Cardinality({ i \in DOMAIN es : es[i].target = id }) <= 1

(***************************************************************************)
(* C21: in every state reached through the store's mutation operations the  *)
(* edges are acyclic: no node is its own ancestor (checked on stores whose   *)
(* node ids are distinct and whose edges join two different present nodes,  *)
(* at most one edge entering each node).                                    *)
(***************************************************************************)
NoNodeIsItsOwnAncestor ==
    (DistinctIds(nodes) /\ SingleParentEdges(nodes, edges)) =>
        \A id \in NodeIdsOf(nodes) : id \notin ProperDescendants(edges, id)

\* the file is an object with a nodes array and an edges array whose edges
\* all join nodes of the file
WellFormedFile(file) ==
    /\ file.text = "object"
    /\ {"nodes", "edges"} \subseteq DOMAIN file
    /\ \A e \in Range(file.edges) :
          e.source \in NodeIdsOf(file.nodes) /\ e.target \in NodeIdsOf(file.nodes)

(***************************************************************************)
(* C22: an import either replaces both the node list and the edge list by   *)
(* those of the file, or, when the file is malformed (no nodes or edges     *)
(* array, or an edge of a node that is not in the file), ends in the error  *)
(* alert and leaves both lists as they were.                                *)
(***************************************************************************)
ImportIsAllOrNothing ==
    last.op = "handleImport" =>
        IF WellFormedFile(last.data)
        THEN /\ last.result = "ok"
             /\ nodes = last.data.nodes
             /\ edges = last.data.edges
        ELSE /\ last.result = "alert"
             /\ nodes = pre.nodes
             /\ edges = pre.edges

\* the steps of the chat assistant and of the job description generator
AssistantOps ==
    {"sendMessage", "settleChat", "handleGenerate", "settleJobDescription"}

\* the last step settled a request that failed: the exchange broke, or the LLM
\* call did not return content
RequestFailed ==
    /\ last.op \in {"settleChat", "settleJobDescription"}
    /\ last.a # "delivered" \/ last.b # "content"

(***************************************************************************)
(* C23: no step of the chat assistant or of the job description generator   *)
(* changes the node list, the edge list or the collapse set, whatever       *)
(* becomes of the request (timeout, rate limit, response without content,   *)
(* non-OK response, network failure, body that is not JSON); a failed chat  *)
(* request ends with one more assistant message, which reports the error,   *)
(* and isLoading false; a failed job description request ends with a        *)
(* non-empty error, the former result and isGenerating false.               *)
(***************************************************************************)
LLMFailureLeavesForest ==
    /\ last.op \in AssistantOps =>
          /\ nodes = pre.nodes
          /\ edges = pre.edges
          /\ collapsedNodes = pre.collapsedNodes
    /\ (RequestFailed /\ last.op = "settleChat") =>
          /\ Len(chat.messages) = Len(pre.chat.messages) + 1
          /\ SubSeq(chat.messages, 1, Len(pre.chat.messages)) = pre.chat.messages
          /\ chat.messages[Len(chat.messages)].type = "assistant"
          /\ includes(chat.messages[Len(chat.messages)].content, "error")
          /\ ~chat.isLoading
    /\ (RequestFailed /\ last.op = "settleJobDescription") =>
          /\ jobDescription.error # ""
          /\ jobDescription.result = pre.jobDescription.result
          /\ ~jobDescription.isGenerating

\* a chat request has failed on a rate limit while the job description
\* generator shows the error of a request that timed out
LLMFailureLeavesForestWitness ==
    /\ last.op = "settleChat"
    /\ last.a = "delivered"
    /\ last.b = "rateLimit"
    /\ jobDescription.error = "ApiCallTimedOut"
    /\ nodes = initialNodes

\* what the chat assistant guarantees in every state
ChatInvariant ==
    /\ Len(chat.inFlight) <= 1
    /\ chat.isLoading <=> chat.inFlight # <<>>
    /\ \A k \in DOMAIN chat.messages :
          chat.messages[k].type = IF k % 2 = 1 THEN "user" ELSE "assistant"
    /\ Len(chat.messages) % 2 = IF chat.isLoading THEN 1 ELSE 0
    /\ last.op = "sendMessage" =>
          IF trim(last.a) = "" \/ pre.chat.isLoading
          THEN chat = pre.chat
          ELSE /\ chat.messages =
                      Append(pre.chat.messages, ChatMessage("user", last.a))
               /\ chat.isLoading
    /\ last.op = "settleChat" =>
          /\ Len(chat.messages) = Len(pre.chat.messages) + 1
          /\ SubSeq(chat.messages, 1, Len(pre.chat.messages)) = pre.chat.messages
          /\ chat.messages[Len(chat.messages)].type = "assistant"

(***************************************************************************)
(* C30: the chat assistant has at most one request in flight; sendMessage   *)
(* with a blank question or while isLoading changes nothing; an accepted    *)
(* question appends exactly one user message and, when its request settles, *)
(* exactly one assistant message, so user and assistant messages alternate; *)
(* and whenever isLoading is true it is false again later, whether the      *)
(* request succeeds or fails.                                               *)
(***************************************************************************)
ChatOneRequestAtATime == []ChatInvariant /\ (chat.isLoading ~> ~chat.isLoading)

\* two questions were asked and answered, the second one after a failure of
\* the network
ChatOneRequestAtATimeWitness ==
    /\ Len(chat.messages) = 4
    /\ ~chat.isLoading
    /\ last.op = "settleChat"
    /\ last.a = "fetchRejects"
    /\ chat.messages[2].content = "LLMContent"

(***************************************************************************)
(* C24: every traversal of the edges terminates, whatever the edge list:    *)
(* no operation ends in the stack overflow (RangeError) of a recursion      *)
(* that follows the edges for ever (checked on stores whose node ids are    *)
(* distinct).                                                               *)
(***************************************************************************)
TraversalsTerminate == DistinctIds(pre.nodes) => last.result # "RangeError"

\* no timer is pending
Quiescent == timers = NoTimers

(***************************************************************************)
(* C25: the deferred layout gives what a layout run at once would give.  A  *)
(* pass that fires lays out the store as it is when it fires, with every    *)
(* mutation made since its timer was set: it changes positions only and     *)
(* leaves node ids, payloads, edges and the collapse set as they are;       *)
(* every handler that changes the store leaves a timer pending; and once    *)
(* no timer is pending, the node list is exactly the layout of the current  *)
(* nodes and edges.                                                         *)
(***************************************************************************)
DeferredLayoutIsCurrent ==
    /\ last.op = "layoutTimer" =>
          /\ nodes = layoutOutcome(pre.nodes, pre.edges).nodes
          /\ [i \in DOMAIN nodes |-> [nodes[i] EXCEPT !.position = 0]] =
                [i \in DOMAIN pre.nodes |-> [pre.nodes[i] EXCEPT !.position = 0]]
          /\ edges = pre.edges
          /\ collapsedNodes = pre.collapsedNodes
    /\ last.op \in {"handleAddEmployee", "handleAddSubordinate",
                    "handleToggleCollapse", "deleteEmployee"} =>
          ~Quiescent
    /\ Quiescent => nodes = layoutOutcome(nodes, edges).nodes

\* a subordinate was added and another node deleted while the timer of the
\* first pass was still pending, and all timers have fired since
DeferredLayoutIsCurrentWitness ==
    /\ Quiescent
    /\ last.op = "layoutTimer"
    /\ steps = 0
    /\ "9" \in NodeIdsOf(nodes)
    /\ "7" \notin NodeIdsOf(nodes)
    /\ nodes # pre.nodes

\* the positions, by node, of the nodes of ns that are still in the list now
KeptPositions(ns) ==
    { <<ns[i].id, ns[i].position>> : i \in { j \in DOMAIN ns : ns[j].id \in NodeIdsOf(nodes) } }

(***************************************************************************)
(* C26: positions belong to the layout.  No node change that comes from     *)
(* dragging a card alters a stored position, and updateEmployee,            *)
(* replaceNodeData, deleteEmployee and toggleNodeCollapse leave the         *)
(* position of every node that remains as it was.                           *)
(***************************************************************************)
PositionsOwnedByLayout ==
    last.op \in {"onNodesChange", "updateEmployee", "replaceNodeData",
                 "deleteEmployee", "toggleNodeCollapse"} =>
        KeptPositions(nodes) = KeptPositions(pre.nodes)

(***************************************************************************)
(* C27: edge ids are unique: in every state reached through addEmployee    *)
(* and deleteEmployee no two edges of the edge list have the same id, so    *)
(* no two different (parent, child) pairs have got the same edge id.        *)
(***************************************************************************)
EdgeIdsUnique == \A i, j \in DOMAIN edges : edges[i].id = edges[j].id => i = j

\* a node list without its positions
WithoutPositions(ns) == [i \in DOMAIN ns |-> [ns[i] EXCEPT !.position = 0]]

\* every node of ns has an incoming edge of es
NoRoot(ns, es) == \A i \in DOMAIN ns : \E e \in Range(es) : e.target = ns[i].id

(***************************************************************************)
(* C28: a layout pass changes nothing but positions: the node list keeps    *)
(* its ids, their order and their payloads, and the edge list, the collapse *)
(* set, the selection, the search state and the department filter are as    *)
(* before; when every node has an incoming edge the pass changes nothing.   *)
(***************************************************************************)
LayoutChangesOnlyPositions ==
    last.op = "handleAutoLayout" =>
        /\ WithoutPositions(nodes) = WithoutPositions(pre.nodes)
        /\ edges = pre.edges
        /\ collapsedNodes = pre.collapsedNodes
        /\ selectedNode = pre.selectedNode
        /\ searchQuery = pre.searchQuery
        /\ searchResults = pre.searchResults
        /\ selectedDepartments = pre.selectedDepartments
        /\ NoRoot(pre.nodes, pre.edges) => nodes = pre.nodes

\* a pass has moved nodes while a card was selected and a search had a result
LayoutChangesOnlyPositionsWitness ==
    /\ last.op = "handleAutoLayout"
    /\ last.result = "ok"
    /\ PositionsOf(nodes) # PositionsOf(pre.nodes)
    /\ selectedNode # NoSelection
    /\ searchResults # <<>>

(***************************************************************************)
(* C29: the stored search results are never stale: every id in              *)
(* searchResults is the id of a node of the node list that matches the      *)
(* current searchQuery (trimmed, case ignored), also after deleteEmployee   *)
(* or updateEmployee, and searchResults is empty whenever searchQuery is    *)
(* empty.                                                                   *)
(***************************************************************************)
SearchResultsCurrent ==
    /\ Range(searchResults) \subseteq IdsContaining(nodes, trim(searchQuery))
    /\ searchQuery = "" => searchResults = <<>>

====
